---- MODULE Spec2Model ----
(***************************************************************************)
(* DDX3216 Cathedral Reverb: SharcCombFilter, SharcAllpassFilter and the   *)
(* DdxReverbAudioProcessor block algorithm (PluginProcessor.h / .cpp).     *)
(*                                                                         *)
(* Numbers.  A float is a fixed-point integer in units of 1/Scale; a       *)
(* product is rounded toward zero, which is sign-symmetric like IEEE       *)
(* rounding (Mul(-a, b) = -Mul(a, b)).  Sums are exact.  Parameters of the *)
(* value tree are held in the same unit (wet 0.5 is 50, 50 ms is 5000).    *)
(* Sample rates and frequencies are plain integers (Hz).                   *)
(***************************************************************************)
EXTENDS Integers, Sequences, FiniteSets, TLC

\* ------------------------------------------------------------------ bounds
\* Largest number of samples in one call of a filter's processBlock*.
MaxFilterBlock == 5
\* Largest number of filter processBlock* calls in one behaviour; the caller
\* stops after the last one.
MaxFilterCalls == 2
\* Largest delay-line capacity handed to a filter's prepare.
MaxDelayCap == 5
\* Largest number of processBlock calls the host makes on the plug-in.
MaxBlocks == 2
\* Largest number of parameter writes the control thread makes.
MaxParamWrites == 2
\* Largest number of processBlock calls made on a second plug-in instance.
MaxOtherBlocks == 1

\* ------------------------------------------------------------ fixed point
Scale == 100

Abs(a) == IF a < 0 THEN -a ELSE a

\* Quotient rounded toward zero.
Div(a, b) ==
  LET q == Abs(a) \div Abs(b)
  IN  IF (a < 0) = (b < 0) THEN q ELSE -q

\* float * float.
Mul(a, b) == Div(a * b, Scale)

\* juce::jlimit(lowerLimit, upperLimit, valueToConstrain)
jlimit(lo, hi, v) == IF v < lo THEN lo ELSE IF hi < v THEN hi ELSE v

\* juce::jmin
jmin(a, b) == IF b < a THEN b ELSE a

\* juce::jmap(sourceValue, sourceMin, sourceMax, targetMin, targetMax)
jmap(v, sMin, sMax, tMin, tMax) ==
  tMin + Div((tMax - tMin) * (v - sMin), sMax - sMin)

\* std::exp(-x), x >= 0 given in thousandths, as a step table of the
\* hundredths it rounds down to (exp(-0.693) = 0.50, exp(-4.61) = 0.01).
ExpNegMilli(xm) ==
  IF xm <= 0 THEN 100
  ELSE IF xm <= 10 THEN 99
  ELSE IF xm <= 105 THEN 90
  ELSE IF xm <= 223 THEN 80
  ELSE IF xm <= 356 THEN 70
  ELSE IF xm <= 510 THEN 60
  ELSE IF xm <= 693 THEN 50
  ELSE IF xm <= 916 THEN 40
  ELSE IF xm <= 1203 THEN 30
  ELSE IF xm <= 1609 THEN 20
  ELSE IF xm <= 2302 THEN 10
  ELSE IF xm <= 2995 THEN 5
  ELSE IF xm <= 4605 THEN 1
  ELSE 0

\* std::pow(10.0f, -x), x >= 0 given in thousandths: 10^-x = exp(-x ln 10).
Pow10NegMilli(xm) == ExpNegMilli(Div(xm * 2303, 1000))

\* std::exp(-twoPi * freq / sRate): the damping coefficient of a comb.
DampingCoeffFor(freq, sRate) == ExpNegMilli(Div(6283 * freq, sRate))

\* A block of n zeros (std::fill / AudioBuffer::clear).
Zeros(n) == [i \in 1..n |-> 0]

\* ------------------------------------------------------ SharcCombFilter
\* juce::dsp::SIMDRegister<float>::size(): 4 lanes (SSE / NEON).
simdWidth == 4

\* A default-constructed SharcCombFilter (member initialisers).
CombDefault ==
  [ delayLine    |-> << >>,
    delaySamples |-> 1000,
    writeIndex   |-> 0,
    feedbackGain |-> 70,
    dampingCoeff |-> 50,
    filterState  |-> 0,
    sRate        |-> 48000,
    prepared     |-> FALSE ]

CombPrepare(f, sRate, maxDelaySamples, initialGain, dampingFreq) ==
  [ delayLine    |-> Zeros(maxDelaySamples),
    delaySamples |-> jlimit(1, maxDelaySamples, maxDelaySamples),
    writeIndex   |-> 0,
    feedbackGain |-> initialGain,
    dampingCoeff |-> DampingCoeffFor(dampingFreq, sRate),
    filterState  |-> 0,
    sRate        |-> sRate,
    prepared     |-> TRUE ]

CombSetDelaySamples(f, newDelay) ==
  [f EXCEPT !.delaySamples = jlimit(1, Len(f.delayLine), newDelay)]

CombSetGain(f, newGain) ==
  [f EXCEPT !.feedbackGain = jlimit(0, 99, newGain)]

CombSetDampingFreq(f, freq) ==
  [f EXCEPT !.dampingCoeff = DampingCoeffFor(freq, f.sRate)]

CombReset(f) ==
  [f EXCEPT !.delayLine = Zeros(Len(f.delayLine)),
            !.writeIndex = 0,
            !.filterState = 0]

\* One iteration of the scalar loop body (also the SIMD path's scalar tail).
\* s = [buffer, idx, flt, out]; x = input[i]; i is the 0-based sample index.
CombScalarStep(s, x, i, len, g, damp) ==
  LET delayed   == s.buffer[s.idx + 1]
      flt       == delayed + Mul(damp, s.flt - delayed)
      newSample == x + Mul(g, flt)
      nidx      == IF s.idx + 1 >= len THEN 0 ELSE s.idx + 1
  IN  [ buffer |-> [s.buffer EXCEPT ![s.idx + 1] = newSample],
        idx    |-> nidx,
        flt    |-> flt,
        out    |-> [s.out EXCEPT ![i + 1] = newSample] ]

RECURSIVE CombScalarLoop(_, _, _, _, _, _, _)
\* for (i = from; i < numSamples; ++i) { scalar body }
CombScalarLoop(s, input, i, numSamples, len, g, damp) ==
  IF i >= numSamples THEN s
  ELSE CombScalarLoop(CombScalarStep(s, input[i + 1], i, len, g, damp),
                      input, i + 1, numSamples, len, g, damp)

CombLoopState(f, output) ==
  [ buffer |-> f.delayLine, idx |-> f.writeIndex,
    flt |-> f.filterState, out |-> output ]

CombStore(f, s) ==
  [f EXCEPT !.delayLine = s.buffer, !.writeIndex = s.idx, !.filterState = s.flt]

\* processBlockScalar(input, output, numSamples): [f |-> filter after the
\* call, out |-> the output buffer after the call].
CombProcessBlockScalar(f, input, output, numSamples) ==
  IF ~f.prepared THEN [f |-> f, out |-> output]
  ELSE LET s == CombScalarLoop(CombLoopState(f, output), input, 0, numSamples,
                               f.delaySamples, f.feedbackGain, f.dampingCoeff)
       IN  [f |-> CombStore(f, s), out |-> s.out]

RECURSIVE CombDampLanes(_, _, _, _, _)
\* for (j = 0; j < simdWidth; ++j) { flt = delayed[j] + damp*(flt - delayed[j]);
\* dampedVals[j] = flt; }: the sequence of flt values, one per lane.
CombDampLanes(delayed, flt, damp, j, acc) ==
  IF j >= simdWidth THEN acc
  ELSE LET nf == delayed[j + 1] + Mul(damp, flt - delayed[j + 1])
       IN  CombDampLanes(delayed, nf, damp, j + 1, Append(acc, nf))

RECURSIVE StoreLanes(_, _, _, _, _)
\* for (j = 0; j < simdWidth; ++j) buffer[(idx + j) % len] = toStore[j];
StoreLanes(buffer, toStore, idx, len, j) ==
  IF j >= simdWidth THEN buffer
  ELSE StoreLanes([buffer EXCEPT ![((idx + j) % len) + 1] = toStore[j + 1]],
                  toStore, idx, len, j + 1)

\* Faulty variant of LoadLanes: the lane index stops at the end of the active
\* region instead of wrapping.
LoadLanesNoWrap(buffer, idx, len) ==
  [j \in 1..simdWidth |-> buffer[jmin(idx + (j - 1), len - 1) + 1]]

\* for (j = 0; j < simdWidth; ++j) delayed[j] = buffer[(idx + j) % len];
LoadLanes(buffer, idx, len) ==
  [j \in 1..simdWidth |-> buffer[((idx + (j - 1)) % len) + 1]]

\* One iteration of the comb's SIMD main loop, at block offset i.
CombSIMDGroup(s, input, i, len, g, damp) ==
  LET delayed == LoadLanes(s.buffer, s.idx, len)
      damped  == CombDampLanes(delayed, s.flt, damp, 0, << >>)
      outVec  == [j \in 1..simdWidth |-> input[i + j] + Mul(g, damped[j])]
  IN  [ buffer |-> StoreLanes(s.buffer, outVec, s.idx, len, 0),
        idx    |-> (s.idx + simdWidth) % len,
        flt    |-> damped[simdWidth],
        out    |-> [k \in 1..Len(s.out) |->
                      IF k > i /\ k <= i + simdWidth THEN outVec[k - i]
                      ELSE s.out[k]] ]

RECURSIVE CombSIMDLoop(_, _, _, _, _, _, _)
\* for (i = 0; i < vectorSamples; i += simdWidth) { group }
CombSIMDLoop(s, input, i, vectorSamples, len, g, damp) ==
  IF i >= vectorSamples THEN s
  ELSE CombSIMDLoop(CombSIMDGroup(s, input, i, len, g, damp),
                    input, i + simdWidth, vectorSamples, len, g, damp)

\* size_t vectorSamples = (numSamples / simdWidth) * simdWidth;
VectorSamples(numSamples) == (numSamples \div simdWidth) * simdWidth

\* processBlockSIMD(input, output, numSamples).
CombProcessBlockSIMD(f, input, output, numSamples) ==
  IF ~f.prepared THEN [f |-> f, out |-> output]
  ELSE LET len == f.delaySamples
           g   == f.feedbackGain
           d   == f.dampingCoeff
           v   == CombSIMDLoop(CombLoopState(f, output), input, 0,
                               VectorSamples(numSamples), len, g, d)
           s   == CombScalarLoop(v, input, VectorSamples(numSamples),
                                 numSamples, len, g, d)
       IN  [f |-> CombStore(f, s), out |-> s.out]

\* --------------------------------------------------- SharcAllpassFilter
\* A default-constructed SharcAllpassFilter (member initialisers).
AllpassDefault ==
  [ delayLine    |-> << >>,
    delaySamples |-> 500,
    writeIndex   |-> 0,
    apGain       |-> 50,
    prepared     |-> FALSE ]

AllpassPrepare(f, maxDelaySamples, initialGain) ==
  [ delayLine    |-> Zeros(maxDelaySamples),
    delaySamples |-> jlimit(1, maxDelaySamples, maxDelaySamples),
    writeIndex   |-> 0,
    apGain       |-> initialGain,
    prepared     |-> TRUE ]

AllpassSetDelaySamples(f, newDelay) ==
  [f EXCEPT !.delaySamples = jlimit(1, Len(f.delayLine), newDelay)]

AllpassSetGain(f, newGain) ==
  [f EXCEPT !.apGain = jlimit(-99, 99, newGain)]

AllpassReset(f) ==
  [f EXCEPT !.delayLine = Zeros(Len(f.delayLine)), !.writeIndex = 0]

\* One iteration of the scalar loop body; s = [buffer, idx, out].
AllpassScalarStep(s, x, i, len, g) ==
  LET delayed == s.buffer[s.idx + 1]
      out     == Mul(-g, x) + delayed
      nidx    == IF s.idx + 1 >= len THEN 0 ELSE s.idx + 1
  IN  [ buffer |-> [s.buffer EXCEPT ![s.idx + 1] = x + Mul(delayed, g)],
        idx    |-> nidx,
        out    |-> [s.out EXCEPT ![i + 1] = out] ]

RECURSIVE AllpassScalarLoop(_, _, _, _, _, _)
AllpassScalarLoop(s, input, i, numSamples, len, g) ==
  IF i >= numSamples THEN s
  ELSE AllpassScalarLoop(AllpassScalarStep(s, input[i + 1], i, len, g),
                         input, i + 1, numSamples, len, g)

AllpassLoopState(f, output) ==
  [buffer |-> f.delayLine, idx |-> f.writeIndex, out |-> output]

AllpassStore(f, s) ==
  [f EXCEPT !.delayLine = s.buffer, !.writeIndex = s.idx]

\* processBlockScalar(input, output, numSamples).  The engine calls it in
\* place (input == output); every input[i] is read before output[i] is
\* written, so the input is taken by value.
AllpassProcessBlockScalar(f, input, output, numSamples) ==
  IF ~f.prepared THEN [f |-> f, out |-> output]
  ELSE LET s == AllpassScalarLoop(AllpassLoopState(f, output), input, 0,
                                  numSamples, f.delaySamples, f.apGain)
       IN  [f |-> AllpassStore(f, s), out |-> s.out]

\* One iteration of the allpass's SIMD main loop, at block offset i.
\* inputVec is loaded before outVec is stored, so an in-place call reads the
\* group's own inputs.
AllpassSIMDGroup(s, input, i, len, g) ==
  LET delayed == LoadLanes(s.buffer, s.idx, len)
      outVec  == [j \in 1..simdWidth |->
                    Mul(Mul(g, input[i + j]), -Scale) + delayed[j]]
      newVals == [j \in 1..simdWidth |-> input[i + j] + Mul(g, delayed[j])]
  IN  [ buffer |-> StoreLanes(s.buffer, newVals, s.idx, len, 0),
        idx    |-> (s.idx + simdWidth) % len,
        out    |-> [k \in 1..Len(s.out) |->
                      IF k > i /\ k <= i + simdWidth THEN outVec[k - i]
                      ELSE s.out[k]] ]

RECURSIVE AllpassSIMDLoop(_, _, _, _, _, _)
AllpassSIMDLoop(s, input, i, vectorSamples, len, g) ==
  IF i >= vectorSamples THEN s
  ELSE AllpassSIMDLoop(AllpassSIMDGroup(s, input, i, len, g),
                       input, i + simdWidth, vectorSamples, len, g)

\* processBlockSIMD(input, output, numSamples).
AllpassProcessBlockSIMD(f, input, output, numSamples) ==
  IF ~f.prepared THEN [f |-> f, out |-> output]
  ELSE LET len == f.delaySamples
           g   == f.apGain
           v   == AllpassSIMDLoop(AllpassLoopState(f, output), input, 0,
                                  VectorSamples(numSamples), len, g)
           s   == AllpassScalarLoop(v, input, VectorSamples(numSamples),
                                    numSamples, len, g)
       IN  [f |-> AllpassStore(f, s), out |-> s.out]

\* ---------------------------------------------- DdxReverbAudioProcessor
numCombs == 4
numAllpasses == 8
\* getTotalNumOutputChannels(): the only supported output layout is stereo.
totalNumOutputChannels == 2

combDelays == <<1116, 1188, 1277, 1356>>
allpassDelays == <<556, 441, 313, 391, 347, 113, 37, 59>>

\* createParameterLayout(): the default value of each parameter.
DefaultParameters ==
  [ decay     |-> 500,
    predelay  |-> 5000,
    damping   |-> 5000,
    diffusion |-> 1000,
    hicut     |-> 0,
    bassmult  |-> 0,
    wet       |-> 50,
    bypass    |-> 0,
    simd      |-> 0 ]

\* A constructed DdxReverbAudioProcessor (member initialisers); the buffers
\* are empty until prepareToPlay.
EngineDefault ==
  [ currentSampleRate |-> 48000,
    dryBuffer         |-> << << >>, << >> >>,
    dryAllocated      |-> 0,
    tempBuffer        |-> << >>,
    preDelayBuffer    |-> << >>,
    preDelayWritePos  |-> 0,
    preDelaySamples   |-> 0,
    combs             |-> [c \in 1..numCombs |-> CombDefault],
    allpasses         |-> [a \in 1..numAllpasses |-> AllpassDefault],
    useSIMD           |-> FALSE ]

\* prepareToPlay(sampleRate, samplesPerBlock).  setSize leaves the contents of
\* dryBuffer / tempBuffer unspecified; every processBlock overwrites the part
\* it reads, so they are shown zeroed.
PrepareToPlayResult(e, sampleRate, samplesPerBlock) ==
  LET maxPreDelay  == sampleRate \div 2
      maxCombDelay == sampleRate \div 10
      maxAPDelay   == sampleRate \div 20
  IN  [ e EXCEPT
          !.currentSampleRate = sampleRate,
          !.dryBuffer = << Zeros(samplesPerBlock), Zeros(samplesPerBlock) >>,
          !.dryAllocated = samplesPerBlock,
          !.tempBuffer = Zeros(samplesPerBlock),
          !.preDelayBuffer = Zeros(maxPreDelay),
          !.preDelayWritePos = 0,
          !.combs = [c \in 1..numCombs |->
             CombSetDelaySamples(
               CombPrepare(e.combs[c], sampleRate, maxCombDelay, 70, 5000),
               (combDelays[c] * sampleRate) \div 48000)],
          !.allpasses = [a \in 1..numAllpasses |->
             AllpassSetDelaySamples(
               AllpassPrepare(e.allpasses[a], maxAPDelay, 50),
               (allpassDelays[a] * sampleRate) \div 48000)] ]

\* Faulty variant of ClearUnusedOutputs: the clearing loop starts one channel late.
ClearUnusedOutputsLate(buf, nIn, n) ==
  [ch \in 1..2 |-> IF ch > nIn + 1 THEN Zeros(n) ELSE buf[ch]]

\* for (i = totalNumInputChannels; i < totalNumOutputChannels; ++i)
\*   buffer.clear(i, 0, numSamples);
ClearUnusedOutputs(buf, nIn, n) ==
  [ch \in 1..totalNumOutputChannels |-> IF ch > nIn THEN Zeros(n) ELSE buf[ch]]

\* copy channel 0 to monoData; with two inputs add channel 1 and halve.
Downmix(buf, nIn, n) ==
  IF nIn > 1 THEN [i \in 1..n |-> Mul(buf[1][i] + buf[2][i], 50)]
  ELSE buf[1]

\* juce::Decibels::decibelsToGain(-hiCutDb) = 10^(-hiCutDb / 20).
CutoffGain(hiCutDb) == Pow10NegMilli(Div(hiCutDb * 1000, 20 * Scale))

RECURSIVE HiCutLoop(_, _, _, _)
\* for (i...) { prevSample = prevSample + cutoffGain*(monoData[i] - prevSample);
\* monoData[i] = prevSample; }   s = [prev, mono]
HiCutLoop(s, cutoffGain, i, n) ==
  IF i >= n THEN s
  ELSE LET np == s.prev + Mul(cutoffGain, s.mono[i + 1] - s.prev)
       IN  HiCutLoop([prev |-> np, mono |-> [s.mono EXCEPT ![i + 1] = np]],
                     cutoffGain, i + 1, n)

\* The hi-cut stage: runs only when hiCutDb > 0.01.
HiCut(prev, mono, hiCutDb, n) ==
  IF hiCutDb > 1
    THEN HiCutLoop([prev |-> prev, mono |-> mono], CutoffGain(hiCutDb), 0, n)
    ELSE [prev |-> prev, mono |-> mono]

\* preDelaySamples as processBlock computes it from the parameter.
PreDelayLength(predelayMs, sampleRate, capacity) ==
  jlimit(0, capacity - 1, Div(predelayMs * sampleRate, 1000 * Scale))

RECURSIVE PreDelayLoopOffByOne(_, _, _, _)
\* Faulty variant of PreDelayLoop: the read position looks one sample too far back.
PreDelayLoopOffByOne(s, d, i, n) ==
  IF i >= n THEN s
  ELSE LET size    == Len(s.buf)
           rp      == s.wpos - d - 1
           readPos == IF rp < 0 THEN rp + size ELSE rp
           delayed == s.buf[readPos + 1]
           nw      == IF s.wpos + 1 >= size THEN 0 ELSE s.wpos + 1
       IN  PreDelayLoopOffByOne(
             [ buf  |-> [s.buf EXCEPT ![s.wpos + 1] = s.mono[i + 1]],
               wpos |-> nw,
               mono |-> [s.mono EXCEPT ![i + 1] = delayed] ],
             d, i + 1, n)

RECURSIVE PreDelayLoop(_, _, _, _)
\* s = [buf, wpos, mono]
PreDelayLoop(s, d, i, n) ==
  IF i >= n THEN s
  ELSE LET size    == Len(s.buf)
           rp      == s.wpos - d
           readPos == IF rp < 0 THEN rp + size ELSE rp
           delayed == s.buf[readPos + 1]
           nw      == IF s.wpos + 1 >= size THEN 0 ELSE s.wpos + 1
       IN  PreDelayLoop(
             [ buf  |-> [s.buf EXCEPT ![s.wpos + 1] = s.mono[i + 1]],
               wpos |-> nw,
               mono |-> [s.mono EXCEPT ![i + 1] = delayed] ],
             d, i + 1, n)

\* The pre-delay stage: skipped when preDelaySamples is 0.
PreDelay(buf, wpos, mono, d, n) ==
  IF d > 0 THEN PreDelayLoop([buf |-> buf, wpos |-> wpos, mono |-> mono], d, 0, n)
  ELSE [buf |-> buf, wpos |-> wpos, mono |-> mono]

\* avgDelayMs, in microseconds: (sum of combDelays) / 4.0f * 1000.0f / rate.
AvgDelayUs(sampleRate) ==
  Div((combDelays[1] + combDelays[2] + combDelays[3] + combDelays[4]) * 250000,
      sampleRate)

\* combGain = jlimit(0.1, 0.99, pow(10, -3 * avgDelayMs / (decayTime * 1000)))
\*            * (1 + bassMult * 0.05)
CombGain(decayTime, bassMult, sampleRate) ==
  LET expoMilli == Div(3 * AvgDelayUs(sampleRate), 10 * decayTime)
      g         == jlimit(10, 99, Pow10NegMilli(expoMilli))
  IN  Mul(g, Scale + Mul(bassMult, 5))

\* dampingFreq = jmap(dampingPct, 0, 100, 20000, 2000)
DampingFreq(dampingPct) == jmap(dampingPct, 0, 100 * Scale, 20000, 2000)

\* apGain = jmap(diffusion, 0, 20, 0.3, 0.7)
ApGain(diffusion) == jmap(diffusion, 0, 20 * Scale, 30, 70)

RECURSIVE CombBank(_, _, _, _, _)
\* for (c = 0; c < numCombs; ++c) { combBuffer.clear(); combs[c].process(
\* monoData, combOut); c == 0 ? copy(monoData, combOut) : add(monoData, combOut) }
\* s = [combs, mono]
CombBank(s, c, n, tempSize, useSIMD) ==
  IF c >= numCombs THEN s
  ELSE LET input == SubSeq(s.mono, 1, n)
           r == IF useSIMD
                  THEN CombProcessBlockSIMD(s.combs[c + 1], input, Zeros(n), n)
                  ELSE CombProcessBlockScalar(s.combs[c + 1], input, Zeros(n), n)
           mixed == [i \in 1..tempSize |->
                       IF i > n THEN s.mono[i]
                       ELSE IF c = 0 THEN r.out[i]
                       ELSE s.mono[i] + r.out[i]]
       IN  CombBank([combs |-> [s.combs EXCEPT ![c + 1] = r.f], mono |-> mixed],
                    c + 1, n, tempSize, useSIMD)

RECURSIVE AllpassChain(_, _, _, _, _)
\* for (auto& ap : allpasses) { ap.setGain(apGain); ap.process(monoData,
\* monoData, numSamples); }     s = [allpasses, mono]
AllpassChain(s, a, n, apGain, useSIMD) ==
  IF a >= numAllpasses THEN s
  ELSE LET f     == AllpassSetGain(s.allpasses[a + 1], apGain)
           input == SubSeq(s.mono, 1, n)
           r == IF useSIMD THEN AllpassProcessBlockSIMD(f, input, input, n)
                ELSE AllpassProcessBlockScalar(f, input, input, n)
           mono == [i \in 1..Len(s.mono) |-> IF i > n THEN s.mono[i] ELSE r.out[i]]
       IN  AllpassChain([allpasses |-> [s.allpasses EXCEPT ![a + 1] = r.f],
                         mono |-> mono],
                        a + 1, n, apGain, useSIMD)

\* Faulty variant of MixChannel: the right channel is not phase-inverted.
MixChannelNoInvert(dry, mono, channel, wetMix, n) ==
  LET dryData == dry[jmin(channel, Len(dry) - 1) + 1]
  IN  [i \in 1..n |-> Mul(dryData[i], Scale - wetMix) + Mul(mono[i], wetMix)]

\* The wet/dry mix of one output channel (0-based channel index).
MixChannel(dry, mono, channel, wetMix, n) ==
  LET dryData == dry[jmin(channel, Len(dry) - 1) + 1]
  IN  [i \in 1..n |->
         Mul(dryData[i], Scale - wetMix)
         + (IF channel = 1 THEN Mul(mono[i], -wetMix) ELSE Mul(mono[i], wetMix))]

\* for (channel = 0; channel < totalNumOutputChannels; ++channel) { mix }
Mix(dry, mono, wetMix, n) ==
  [ch \in 1..totalNumOutputChannels |-> MixChannel(dry, mono, ch - 1, wetMix, n)]


\* Comb stage: every comb gets the block's damping frequency and gain, then
\* the comb loop runs on monoData (the first n samples of tempBuffer).
CombStage(e, p, mono, n, useSIMD) ==
  CombBank(
    [ combs |-> [c \in 1..numCombs |->
                   CombSetGain(
                     CombSetDampingFreq(e.combs[c], DampingFreq(p.damping)),
                     CombGain(p.decay, p.bassmult, e.currentSampleRate))],
      mono  |-> [i \in 1..Len(e.tempBuffer) |->
                   IF i <= n THEN mono[i] ELSE e.tempBuffer[i]] ],
    0, n, Len(e.tempBuffer), useSIMD)

\* FloatVectorOperations::multiply(monoData, 0.25f, numSamples), then the
\* allpass chain.
AllpassStage(e, p, mono, n, useSIMD) ==
  AllpassChain(
    [ allpasses |-> e.allpasses,
      mono      |-> [i \in 1..Len(mono) |->
                       IF i <= n THEN Mul(mono[i], 25) ELSE mono[i]] ],
    0, n, ApGain(p.diffusion), useSIMD)

\* The processor, the static, the buffer, the allocation count and the
\* per-sample signals once every stage has run: hc, pd, cb, ac are the results
\* of the hi-cut, pre-delay, comb and allpass stages, d the pre-delay length.
\* trace[i] = [x: pre-delay input, y: pre-delay output, d: pre-delay length,
\* comb: monoData after the comb loop (before the 0.25 scaling), wet: monoData
\* after the allpass chain].
AfterAllpasses(e, p, buf, n, hc, d, pd, cb, ac) ==
  [ eng |-> [ e EXCEPT !.useSIMD = p.simd > 50,
                       !.dryBuffer = buf,
                       \* dryBuffer.makeCopyOf(buffer, true): reallocates only to grow
                       !.dryAllocated = IF n > @ THEN n ELSE @,
                       !.tempBuffer = ac.mono,
                       !.preDelaySamples = d,
                       !.preDelayBuffer = pd.buf,
                       !.preDelayWritePos = pd.wpos,
                       !.combs = cb.combs,
                       !.allpasses = ac.allpasses ],
    prev   |-> hc.prev,
    buffer |-> Mix(buf, ac.mono, p.wet, n),
    \* the dry copy if it had to grow, and combBuffer(1, numSamples)
    allocs |-> (IF n > e.dryAllocated THEN 1 ELSE 0) + 1,
    trace  |-> [i \in 1..n |->
                  [x |-> hc.mono[i], y |-> pd.mono[i], d |-> d,
                   comb |-> cb.mono[i], wet |-> ac.mono[i]]] ]

AfterCombs(e, p, buf, n, hc, d, pd, cb) ==
  AfterAllpasses(e, p, buf, n, hc, d, pd, cb,
                 AllpassStage(e, p, cb.mono, n, p.simd > 50))

AfterPreDelay(e, p, buf, n, hc, d, pd) ==
  AfterCombs(e, p, buf, n, hc, d, pd,
             CombStage(e, p, pd.mono, n, p.simd > 50))

AfterHiCut(e, p, buf, n, hc, d) ==
  AfterPreDelay(e, p, buf, n, hc, d,
                PreDelay(e.preDelayBuffer, e.preDelayWritePos, hc.mono, d, n))

\* processBlock past the bypass test: parameters p, buffer buf (unused output
\* channels already cleared), n samples.  prev is the function-local static
\* prevSample.  Returns the processor, the static and the buffer after the
\* call, the number of heap allocations made, and the per-sample signals at
\* the pre-delay stage and at the end of the allpass chain.
ProcessActive(e, prev, p, buf, nIn, n) ==
  AfterHiCut(e, p, buf, n,
             HiCut(prev, Downmix(buf, nIn, n), p.hicut, n),
             PreDelayLength(p.predelay, e.currentSampleRate,
                            Len(e.preDelayBuffer)))

\* Faulty variant of ProcessBlockResult: the bypass test comes after the processing,
\* so a bypassed block still advances the processor.
ProcessBlockResultLateBypass(e, prev, p, buf, nIn, n) ==
  LET cleared == ClearUnusedOutputs(buf, nIn, n)
      r       == ProcessActive(e, prev, p, cleared, nIn, n)
  IN  IF p.bypass > 50
        THEN [eng |-> r.eng, prev |-> r.prev, buffer |-> cleared, allocs |-> 0,
              trace |-> << >>]
        ELSE r

\* processBlock(buffer): clear the unused outputs, return if bypassed,
\* otherwise process.
ProcessBlockResult(e, prev, p, buf, nIn, n) ==
  LET cleared == ClearUnusedOutputs(buf, nIn, n)
  IN  IF p.bypass > 50
        THEN [eng |-> e, prev |-> prev, buffer |-> cleared, allocs |-> 0,
              trace |-> << >>]
        ELSE ProcessActive(e, prev, p, cleared, nIn, n)


\* ===================================================================
\* State
\* ===================================================================
VARIABLES
  \* -- one SharcCombFilter / SharcAllpassFilter driven through its public
  \*    interface by an arbitrary caller
  which,     \* "comb" or "allpass": the filter this behaviour drives
  comb,      \* the SharcCombFilter object
  ap,        \* the SharcAllpassFilter object
  fOp,       \* the last member function called on the filter
  fIn,       \* the input block of the last processBlock* call
  fOut,      \* the output block of the last processBlock* call
  fPre,      \* the filter as it was before the last processBlock* call
  fCalls,    \* number of processBlock* calls made so far
  \* -- the plug-in
  eng,        \* the DdxReverbAudioProcessor object
  prevSample, \* the function-local static of processBlock (one per process)
  params,     \* the raw parameter values of the value tree (apvts)
  numIn,      \* getTotalNumInputChannels(): 1 (mono) or 2 (stereo)
  buffer,     \* the audio buffer as the last processBlock left it
  inBlock,    \* the audio buffer as the host handed it to that call
  atCall,     \* [eng, prev, params] as they were when that call began
  allocs,     \* heap allocations made during that call
  op,         \* the last operation
  hist,       \* per-sample pre-delay input/output and wet signal since prepareToPlay
  blocks,     \* processBlock calls made so far
  writes,     \* parameter writes made so far
  otherBlocks, \* processBlock calls made on a second processor instance
  \* -- the audio thread inside one processBlock call
  pc,         \* "idle", the parameter the call loads next, or "run"
  local,      \* the parameter values the call has loaded into its locals
  loads       \* how many times the call has loaded each parameter

filterVars == <<which, comb, ap, fOp, fIn, fOut, fPre, fCalls>>

callVars == <<pc, local, loads>>

engineVars == <<eng, prevSample, params, numIn, buffer, inBlock, atCall,
                allocs, op, hist, blocks, writes, otherBlocks, callVars>>

vars == <<filterVars, engineVars>>

\* ------------------------------------------------------- filter-level inputs
\* Sample rate handed to a filter's prepare.
FilterRates == {48000}
\* Gains handed to prepare / setGain: inside and above the range.
GainArgs == {50, 150}
\* Block lengths of a processBlock* call: below, at and above the vector width.
FilterBlockLens == {1, simdWidth, MaxFilterBlock}
\* Damping frequencies handed to prepare / setDampingFreq (Hz).
FreqArgs == {5000, 20000}
\* Delay lengths handed to prepare (capacity) and to setDelaySamples.
CapArgs == {0, 2, MaxDelayCap}
DelayArgs == -1..(MaxDelayCap + 1)
\* Input blocks of n samples: every sample distinct, signs alternating.
FilterInputs(n) ==
  { [i \in 1..n |-> IF i % 2 = 1 THEN 100 * i ELSE -100 * i] }
\* Values an out-of-bounds read of an empty delay line may produce.
Garbage == {0, 777}

\* The constructed plug-in, before the host has called anything.
EngineConstructed ==
  /\ eng = EngineDefault
  /\ prevSample = 0
  /\ params = DefaultParameters
  /\ buffer = << >>
  /\ inBlock = << >>
  /\ atCall = [eng |-> EngineDefault, prev |-> 0, params |-> DefaultParameters]
  /\ allocs = 0
  /\ op = "construct"
  /\ hist = << >>
  /\ blocks = 0
  /\ writes = 0
  /\ otherBlocks = 0
  /\ pc = "idle"
  /\ local = [k \in DOMAIN DefaultParameters |-> 0]
  /\ loads = [k \in DOMAIN DefaultParameters |-> 0]

EngineIdle == EngineConstructed /\ numIn = 2

InitFilter ==
  /\ which \in {"comb", "allpass"}
  /\ comb = CombDefault
  /\ ap = AllpassDefault
  /\ fOp = "construct"
  /\ fIn = << >>
  /\ fOut = << >>
  /\ fPre = IF which = "comb" THEN CombDefault ELSE AllpassDefault
  /\ fCalls = 0
  /\ EngineIdle

\* ------------------------------------------------------------ comb actions
FCombPrepare ==
  /\ which = "comb"
  /\ fCalls < MaxFilterCalls
  /\ \E sr \in FilterRates, m \in CapArgs, g \in GainArgs, fr \in FreqArgs :
       comb' = CombPrepare(comb, sr, m, g, fr)
  /\ fOp' = "prepare"
  /\ UNCHANGED <<which, ap, fIn, fOut, fPre, fCalls, engineVars>>

FCombSetDelaySamples ==
  /\ which = "comb"
  /\ fCalls < MaxFilterCalls
  /\ \E n \in DelayArgs : comb' = CombSetDelaySamples(comb, n)
  /\ fOp' = "setDelaySamples"
  /\ UNCHANGED <<which, ap, fIn, fOut, fPre, fCalls, engineVars>>

FCombSetGain ==
  /\ which = "comb"
  /\ fCalls < MaxFilterCalls
  /\ \E g \in GainArgs : comb' = CombSetGain(comb, g)
  /\ fOp' = "setGain"
  /\ UNCHANGED <<which, ap, fIn, fOut, fPre, fCalls, engineVars>>

FCombSetDampingFreq ==
  /\ which = "comb"
  /\ fCalls < MaxFilterCalls
  /\ \E fr \in FreqArgs : comb' = CombSetDampingFreq(comb, fr)
  /\ fOp' = "setDampingFreq"
  /\ UNCHANGED <<which, ap, fIn, fOut, fPre, fCalls, engineVars>>

FCombReset ==
  /\ which = "comb"
  /\ fCalls < MaxFilterCalls
  /\ comb' = CombReset(comb)
  /\ fOp' = "reset"
  /\ UNCHANGED <<which, ap, fIn, fOut, fPre, fCalls, engineVars>>

\* A prepared filter whose delay line is empty (prepare(.., 0, ..)) indexes
\* buffer[0] of an empty vector: the samples it reads are arbitrary.
FCombProcessEmpty ==
  /\ which = "comb"
  /\ comb.prepared /\ Len(comb.delayLine) = 0
  /\ fCalls < MaxFilterCalls
  /\ \E n \in FilterBlockLens, x \in FilterInputs(1), junk \in Garbage :
       /\ fIn' = [i \in 1..n |-> x[1]]
       /\ fOut' = [i \in 1..n |-> junk]
  /\ fOp' = "outOfBounds"
  /\ fPre' = comb
  /\ fCalls' = fCalls + 1
  /\ UNCHANGED <<which, comb, ap, engineVars>>

FCombProcessBlockScalar ==
  /\ which = "comb"
  /\ ~(comb.prepared /\ Len(comb.delayLine) = 0)
  /\ fCalls < MaxFilterCalls
  /\ \E n \in FilterBlockLens : \E x \in FilterInputs(n) :
       LET r == CombProcessBlockScalar(comb, x, Zeros(n), n)
       IN  /\ comb' = r.f
           /\ fOut' = r.out
           /\ fIn' = x
  /\ fOp' = "processBlockScalar"
  /\ fPre' = comb
  /\ fCalls' = fCalls + 1
  /\ UNCHANGED <<which, ap, engineVars>>

FCombProcessBlockSIMD ==
  /\ which = "comb"
  /\ ~(comb.prepared /\ Len(comb.delayLine) = 0)
  /\ fCalls < MaxFilterCalls
  /\ \E n \in FilterBlockLens : \E x \in FilterInputs(n) :
       LET r == CombProcessBlockSIMD(comb, x, Zeros(n), n)
       IN  /\ comb' = r.f
           /\ fOut' = r.out
           /\ fIn' = x
  /\ fOp' = "processBlockSIMD"
  /\ fPre' = comb
  /\ fCalls' = fCalls + 1
  /\ UNCHANGED <<which, ap, engineVars>>

\* --------------------------------------------------------- allpass actions
FAllpassPrepare ==
  /\ which = "allpass"
  /\ fCalls < MaxFilterCalls
  /\ \E m \in CapArgs, g \in GainArgs : ap' = AllpassPrepare(ap, m, g)
  /\ fOp' = "prepare"
  /\ UNCHANGED <<which, comb, fIn, fOut, fPre, fCalls, engineVars>>

FAllpassSetDelaySamples ==
  /\ which = "allpass"
  /\ fCalls < MaxFilterCalls
  /\ \E n \in DelayArgs : ap' = AllpassSetDelaySamples(ap, n)
  /\ fOp' = "setDelaySamples"
  /\ UNCHANGED <<which, comb, fIn, fOut, fPre, fCalls, engineVars>>

FAllpassSetGain ==
  /\ which = "allpass"
  /\ fCalls < MaxFilterCalls
  /\ \E g \in GainArgs : ap' = AllpassSetGain(ap, g)
  /\ fOp' = "setGain"
  /\ UNCHANGED <<which, comb, fIn, fOut, fPre, fCalls, engineVars>>

FAllpassReset ==
  /\ which = "allpass"
  /\ fCalls < MaxFilterCalls
  /\ ap' = AllpassReset(ap)
  /\ fOp' = "reset"
  /\ UNCHANGED <<which, comb, fIn, fOut, fPre, fCalls, engineVars>>

FAllpassProcessEmpty ==
  /\ which = "allpass"
  /\ ap.prepared /\ Len(ap.delayLine) = 0
  /\ fCalls < MaxFilterCalls
  /\ \E n \in FilterBlockLens, x \in FilterInputs(1), junk \in Garbage :
       /\ fIn' = [i \in 1..n |-> x[1]]
       /\ fOut' = [i \in 1..n |-> junk]
  /\ fOp' = "outOfBounds"
  /\ fPre' = ap
  /\ fCalls' = fCalls + 1
  /\ UNCHANGED <<which, comb, ap, engineVars>>

\* The caller passes the same buffer as input and output (as the engine does).
FAllpassProcessBlockScalar ==
  /\ which = "allpass"
  /\ ~(ap.prepared /\ Len(ap.delayLine) = 0)
  /\ fCalls < MaxFilterCalls
  /\ \E n \in FilterBlockLens : \E x \in FilterInputs(n) :
       LET r == AllpassProcessBlockScalar(ap, x, x, n)
       IN  /\ ap' = r.f
           /\ fOut' = r.out
           /\ fIn' = x
  /\ fOp' = "processBlockScalar"
  /\ fPre' = ap
  /\ fCalls' = fCalls + 1
  /\ UNCHANGED <<which, comb, engineVars>>

FAllpassProcessBlockSIMD ==
  /\ which = "allpass"
  /\ ~(ap.prepared /\ Len(ap.delayLine) = 0)
  /\ fCalls < MaxFilterCalls
  /\ \E n \in FilterBlockLens : \E x \in FilterInputs(n) :
       LET r == AllpassProcessBlockSIMD(ap, x, x, n)
       IN  /\ ap' = r.f
           /\ fOut' = r.out
           /\ fIn' = x
  /\ fOp' = "processBlockSIMD"
  /\ fPre' = ap
  /\ fCalls' = fCalls + 1
  /\ UNCHANGED <<which, comb, engineVars>>

NextFilter ==
  \/ FCombPrepare
  \/ FCombSetDelaySamples
  \/ FCombSetGain
  \/ FCombSetDampingFreq
  \/ FCombReset
  \/ FCombProcessEmpty
  \/ FCombProcessBlockScalar
  \/ FCombProcessBlockSIMD
  \/ FAllpassPrepare
  \/ FAllpassSetDelaySamples
  \/ FAllpassSetGain
  \/ FAllpassReset
  \/ FAllpassProcessEmpty
  \/ FAllpassProcessBlockScalar
  \/ FAllpassProcessBlockSIMD

SpecFilter == InitFilter /\ [][NextFilter]_vars

\* ===================================================================
\* The plug-in driven by a host and a control thread (Spec)
\* ===================================================================
\* Sample rates and block sizes the host prepares the plug-in with.
SampleRates == {20, 40}
BlockSizes == {2}

Impulse(n) == [i \in 1..n |-> IF i = 1 THEN 100000 ELSE 0]
Ramp(n) == [i \in 1..n |-> IF i % 2 = 1 THEN 40000 * i ELSE -40000 * i]

\* The two-channel buffers of n samples the host hands to processBlock.  With
\* a mono input the second channel is an output channel holding stale data.
EngineBlocks(n) == { <<Impulse(n), Zeros(n)>>, <<Ramp(n), Impulse(n)>> }

\* The values the control thread writes (parameter id, raw value).
ParamWrites ==
  { <<"predelay", 0>>, <<"predelay", 10000>>,
    <<"hicut", 600>>,
    <<"wet", 0>>, <<"wet", 100>>,
    <<"bypass", 100>>, <<"bypass", 0>>,
    <<"simd", 100>>,
    <<"diffusion", 2000>>, <<"bassmult", 1000>>,
    <<"decay", 2000>>, <<"damping", 0>> }
\* The writes of the hi-cut parameter alone.
HiCutWrites == { <<"hicut", 600>> }

Init ==
  /\ which = "none"
  /\ comb = CombDefault
  /\ ap = AllpassDefault
  /\ fOp = "construct"
  /\ fIn = << >>
  /\ fOut = << >>
  /\ fPre = CombDefault
  /\ fCalls = 0
  /\ EngineConstructed
  /\ numIn \in {1, 2}

\* The host calls prepareToPlay (processing is quiesced).
PrepareToPlayIn(R, B) ==
  /\ pc = "idle"
  /\ blocks < MaxBlocks
  /\ \E sr \in R, spb \in B :
       eng' = PrepareToPlayResult(eng, sr, spb)
  /\ op' = "prepareToPlay"
  /\ hist' = << >>
  /\ buffer' = << >>
  /\ inBlock' = << >>
  /\ atCall' = [eng |-> EngineDefault, prev |-> 0, params |-> DefaultParameters]
  /\ allocs' = 0
  /\ UNCHANGED <<prevSample, params, numIn, blocks, writes, otherBlocks,
                 filterVars, callVars>>

\* The control thread stores one parameter value, one of the writes W.
SetParameterIn(W) ==
  /\ blocks < MaxBlocks
  /\ writes < MaxParamWrites
  /\ \E w \in W : params' = [params EXCEPT ![w[1]] = w[2]]
  /\ writes' = writes + 1
  /\ UNCHANGED <<eng, prevSample, numIn, buffer, inBlock, atCall, allocs, op,
                 hist, blocks, otherBlocks, filterVars, callVars>>

\* The host calls processBlock with a block no larger than the prepared size.
ProcessBlock ==
  /\ pc = "idle"
  /\ blocks < MaxBlocks
  /\ \E n \in 1..Len(eng.tempBuffer) : \E b \in EngineBlocks(n) :
     \E r \in {ProcessBlockResult(eng, prevSample, params, b, numIn, n)} :
           /\ eng' = r.eng
           /\ prevSample' = r.prev
           /\ buffer' = r.buffer
           /\ allocs' = r.allocs
           /\ hist' = hist \o r.trace
           /\ inBlock' = b
  /\ atCall' = [eng |-> eng, prev |-> prevSample, params |-> params]
  /\ op' = "processBlock"
  /\ blocks' = blocks + 1
  /\ UNCHANGED <<params, numIn, writes, otherBlocks, filterVars, callVars>>

\* A second DdxReverbAudioProcessor in the same process runs processBlock with
\* its own hi-cut parameter above the threshold.  Its members are its own; the
\* function-local static prevSample is the one object both instances use.
OtherInstanceProcessBlock ==
  /\ otherBlocks < MaxOtherBlocks
  /\ \E n \in 1..2 : \E b \in EngineBlocks(n) :
       prevSample' = HiCut(prevSample, Downmix(b, 2, n), 600, n).prev
  /\ otherBlocks' = otherBlocks + 1
  /\ UNCHANGED <<eng, params, numIn, buffer, inBlock, atCall, allocs, op, hist,
                 blocks, writes, filterVars, callVars>>

PrepareToPlay == PrepareToPlayIn(SampleRates, BlockSizes)

SetParameter == SetParameterIn(ParamWrites)

Next ==
  \/ PrepareToPlay
  \/ SetParameter
  \/ ProcessBlock

Spec == Init /\ [][Next]_vars

\* Two plug-in instances in one process; the control thread of the first
\* touches its hi-cut parameter only.
SetHiCut == SetParameterIn(HiCutWrites)

NextTwoInstances ==
  \/ PrepareToPlay
  \/ SetHiCut
  \/ ProcessBlock
  \/ OtherInstanceProcessBlock

SpecTwoInstances == Init /\ [][NextTwoInstances]_vars

\* The plug-in at the sample rates of real hosts, one sample per block; the
\* control thread touches the parameters of the comb gain only.
HostRates == {44100, 48000}
GainWrites == { <<"decay", 2000>>, <<"decay", 200>>, <<"bassmult", 1000>>,
                <<"bassmult", -1000>> }

PrepareAtHostRate == PrepareToPlayIn(HostRates, {1})

SetGainParameter == SetParameterIn(GainWrites)

NextHostRates ==
  \/ PrepareAtHostRate
  \/ SetGainParameter
  \/ ProcessBlock

SpecHostRates == Init /\ [][NextHostRates]_vars

\* ===================================================================
\* The two processing paths side by side (SpecSimd)
\* ===================================================================
\* Either one filter driven through its public interface, or the plug-in
\* prepared at a sample rate that makes every active length at least the
\* vector width (the shortest allpass, 37 samples at 48 kHz, gets 4), with
\* blocks of up to simdWidth + 1 samples and the control thread switching the
\* simd parameter (and taking the pre-delay out of the way).
SimdRates == {5200}
SimdWrites == { <<"simd", 100>>, <<"simd", 0>>, <<"predelay", 0>> }

PrepareForSimd ==
  which = "none" /\ PrepareToPlayIn(SimdRates, {simdWidth + 1})

SetSimd == which = "none" /\ SetParameterIn(SimdWrites)

ProcessBlockEitherPath == which = "none" /\ ProcessBlock

InitSimd == InitFilter \/ Init

NextSimd ==
  \/ NextFilter
  \/ PrepareForSimd
  \/ SetSimd
  \/ ProcessBlockEitherPath

SpecSimd == InitSimd /\ [][NextSimd]_vars

\* ===================================================================
\* processBlock, one parameter load at a time (SpecInterleaved)
\* ===================================================================
\* The control thread stores parameter values while the audio thread is inside
\* processBlock.  Each *apvts.getRawParameterValue(id) is one atomic load; the
\* code after the last load reads locals and members only, so it is one step.

\* The order in which processBlock loads the parameters.
LoadOrder == << "bypass", "decay", "predelay", "damping", "diffusion", "hicut",
                "bassmult", "wet", "simd" >>

\* Where the call goes after loading the parameter at position i of LoadOrder.
AfterLoad(i) == IF i < Len(LoadOrder) THEN LoadOrder[i + 1] ELSE "run"

\* The values the control thread writes while a call is in progress.
SnapshotWrites ==
  { <<"wet", 0>>, <<"wet", 100>>, <<"bypass", 100>>, <<"simd", 100>>,
    <<"predelay", 0>>, <<"diffusion", 2000>> }

\* Faulty variant of RunParameters: the mix reads the wet parameter again.
RunParametersRereadWet(loc, shared) == [loc EXCEPT !.wet = shared.wet]

\* The parameter values the code after the loads works with: the locals
\* (decayTime, predelayMs, ..., wetMix) and the member useSIMD, never the
\* value tree.
RunParameters(loc, shared) == loc

\* The host calls processBlock: the unused output channels are cleared.
EnterProcessBlock ==
  /\ pc = "idle"
  /\ blocks < MaxBlocks
  /\ \E n \in 1..Len(eng.tempBuffer) : \E b \in EngineBlocks(n) :
       /\ inBlock' = b
       /\ buffer' = ClearUnusedOutputs(b, numIn, n)
  /\ atCall' = [eng |-> eng, prev |-> prevSample, params |-> params]
  /\ pc' = LoadOrder[1]
  /\ local' = [k \in DOMAIN DefaultParameters |-> 0]
  /\ loads' = [k \in DOMAIN DefaultParameters |-> 0]
  /\ op' = "enterProcessBlock"
  /\ allocs' = 0
  /\ UNCHANGED <<eng, prevSample, params, numIn, hist, blocks, writes,
                 otherBlocks, filterVars>>

\* if (*apvts.getRawParameterValue("bypass") > 0.5f) return;
LoadBypass ==
  /\ pc = "bypass"
  /\ local' = [local EXCEPT !.bypass = params.bypass]
  /\ loads' = [loads EXCEPT !.bypass = @ + 1]
  /\ IF params.bypass > 50
       THEN /\ pc' = "idle"
            /\ op' = "processBlock"
            /\ blocks' = blocks + 1
       ELSE /\ pc' = AfterLoad(1)
            /\ UNCHANGED <<op, blocks>>
  /\ UNCHANGED <<eng, prevSample, params, numIn, buffer, inBlock, atCall,
                 allocs, hist, writes, otherBlocks, filterVars>>

\* float decayTime = *apvts.getRawParameterValue("decay"); ... one load each,
\* down to useSIMD.
LoadParameter ==
  /\ \E i \in 2..Len(LoadOrder) :
       /\ pc = LoadOrder[i]
       /\ local' = [local EXCEPT ![pc] = params[pc]]
       /\ loads' = [loads EXCEPT ![pc] = @ + 1]
       /\ pc' = AfterLoad(i)
  /\ UNCHANGED <<eng, prevSample, params, numIn, buffer, inBlock, atCall,
                 allocs, op, hist, blocks, writes, otherBlocks, filterVars>>

\* The rest of processBlock, from the dry copy to the mix.
RunBlock ==
  /\ pc = "run"
  /\ \E r \in {ProcessActive(eng, prevSample, RunParameters(local, params),
                             buffer, numIn, Len(inBlock[1]))} :
       /\ eng' = r.eng
       /\ prevSample' = r.prev
       /\ buffer' = r.buffer
       /\ allocs' = r.allocs
       /\ hist' = hist \o r.trace
  /\ pc' = "idle"
  /\ op' = "processBlock"
  /\ blocks' = blocks + 1
  /\ UNCHANGED <<params, numIn, inBlock, atCall, writes, otherBlocks,
                 filterVars, local, loads>>

\* The control thread stores a value at any point of the call.
SetParameterDuringCall == SetParameterIn(SnapshotWrites)

NextInterleaved ==
  \/ PrepareToPlay
  \/ SetParameterDuringCall
  \/ EnterProcessBlock
  \/ LoadBypass
  \/ LoadParameter
  \/ RunBlock

SpecInterleaved == Init /\ [][NextInterleaved]_vars


\* ===================================================================
\* Claims on the plug-in (Spec, SpecTwoInstances, SpecHostRates,
\* SpecInterleaved)
\* ===================================================================
\* The last audio call was a processBlock that found the bypass parameter on.
BypassedCall == op = "processBlock" /\ atCall.params.bypass > 50

\* The last audio call was a processBlock that ran the reverb.
ActiveCall == op = "processBlock" /\ ~(atCall.params.bypass > 50)

\* Number of samples of the block handed to the last processBlock.
CallSamples == Len(inBlock[1])

\* C1: a bypassed processBlock leaves every input channel of the block equal
\* to what the host handed in, and every output channel beyond the input
\* channel count all zeros.
C1_BypassIdentity ==
  BypassedCall =>
    \A ch \in 1..totalNumOutputChannels :
      buffer[ch] = IF ch <= numIn THEN inBlock[ch] ELSE Zeros(CallSamples)

\* A bypassed call on a mono layout whose second channel came in with stale
\* data, on a processor that already holds signal.
C1_Witness ==
  /\ BypassedCall
  /\ numIn = 1
  /\ inBlock[2] # Zeros(CallSamples)
  /\ inBlock[1] # Zeros(CallSamples)
  /\ atCall.eng.preDelayBuffer # Zeros(Len(atCall.eng.preDelayBuffer))

\* Every piece of signal memory of the processor is zero and every cursor 0.
SignalMemoryZero ==
  /\ eng.preDelayBuffer = Zeros(Len(eng.preDelayBuffer))
  /\ eng.preDelayWritePos = 0
  /\ \A c \in 1..numCombs :
       /\ eng.combs[c].delayLine = Zeros(Len(eng.combs[c].delayLine))
       /\ eng.combs[c].filterState = 0
       /\ eng.combs[c].writeIndex = 0
  /\ \A a \in 1..numAllpasses :
       /\ eng.allpasses[a].delayLine = Zeros(Len(eng.allpasses[a].delayLine))
       /\ eng.allpasses[a].writeIndex = 0
  /\ prevSample = 0

\* C3: after prepareToPlay, and before the next block, the pre-delay buffer,
\* the comb lines and damping memories, the allpass lines and the hi-cut
\* memory are all zero and all cursors are 0.
C3_PrepareResetsAll == op = "prepareToPlay" => SignalMemoryZero

\* C4: a processBlock on another instance never changes what this instance
\* outputs for its next block.
C4_InstancesIsolated ==
  [][ OtherInstanceProcessBlock =>
        \A n \in 1..Len(eng.tempBuffer) : \A b \in EngineBlocks(n) :
          ProcessBlockResult(eng, prevSample', params, b, numIn, n).buffer
          = ProcessBlockResult(eng, prevSample, params, b, numIn, n).buffer
    ]_vars

\* Every sample since prepareToPlay went through the pre-delay stage with one
\* and the same length, and that length is at least 1.
ConstantPreDelay ==
  /\ Len(hist) >= 1
  /\ hist[1].d >= 1
  /\ \A k \in 1..Len(hist) : hist[k].d = hist[1].d

\* trunc(preDelayMs * sampleRate / 1000) for the parameter value the last
\* processBlock call read.
UnclampedPreDelay ==
  Div(atCall.params.predelay * eng.currentSampleRate, 1000 * Scale)

\* C5: with a constant pre-delay length d >= 1 since prepareToPlay, the stage's
\* output at sample n is its input at sample n - d (zero for n < d), across
\* blocks, where d = trunc(preDelayMs*sampleRate/1000) if that is in
\* [1, capacity-1]; and if its input at sample 0 is non-zero the wet signal is
\* zero at every sample before d and non-zero at sample d.
C5_PreDelayIsDelay ==
  ConstantPreDelay =>
    LET d == hist[1].d
    IN  /\ ActiveCall /\ UnclampedPreDelay \in 1..(Len(eng.preDelayBuffer) - 1) =>
             eng.preDelaySamples = UnclampedPreDelay
             /\ hist[Len(hist)].d = UnclampedPreDelay
        /\ \A k \in 1..Len(hist) :
             hist[k].y = IF k > d THEN hist[k - d].x ELSE 0
        /\ hist[1].x # 0 =>
             /\ \A k \in 1..Len(hist) : k <= d => hist[k].wet = 0
             /\ Len(hist) > d => hist[d + 1].wet # 0

\* Two blocks with the default 50 ms at 40 Hz (d = 2): the impulse of the
\* first block comes out in the second.
C5_Witness ==
  /\ ConstantPreDelay
  /\ hist[1].d = 2
  /\ blocks = 2
  /\ Len(hist) = 4
  /\ hist[1].x # 0
  /\ hist[3].y = hist[1].x
  /\ hist[3].wet # 0

\* C6: after a non-bypassed block, dryBuffer is the incoming block (unused
\* outputs cleared) and output channel c at sample n is
\* dry_c[n]*(1 - wet) + s_c*wet*mono[n] with s_0 = +1, s_1 = -1; so wet = 0
\* gives the dry block and wet = 1 gives left = mono, right = -mono.
C6_MixLaw ==
  ActiveCall =>
    LET w == atCall.params.wet
    IN  /\ \A ch \in 1..totalNumOutputChannels :
             eng.dryBuffer[ch]
               = IF ch <= numIn THEN inBlock[ch] ELSE Zeros(CallSamples)
        /\ \A ch \in 1..totalNumOutputChannels : \A i \in 1..CallSamples :
             buffer[ch][i]
               = Mul(eng.dryBuffer[ch][i], Scale - w)
                 + Mul(eng.tempBuffer[i], IF ch = 1 THEN w ELSE -w)
        /\ w = 0 => buffer = eng.dryBuffer
        /\ w = Scale =>
             \A i \in 1..CallSamples :
               buffer[1][i] = eng.tempBuffer[i] /\ buffer[2][i] = -buffer[1][i]

\* A stereo block mixed half wet with a non-zero wet signal.
C6_Witness ==
  /\ ActiveCall
  /\ numIn = 2
  /\ atCall.params.wet = 50
  /\ CallSamples = 2
  /\ eng.tempBuffer[1] # 0
  /\ eng.dryBuffer[1][1] # 0
  /\ buffer[1] # buffer[2]

\* C9: a bypassed processBlock leaves the processor's members and the hi-cut
\* memory exactly as they were when the call began.
C9_BypassFreezesState ==
  BypassedCall => eng = atCall.eng /\ prevSample = atCall.prev

\* A bypassed call on a processor that holds signal from an earlier block.
C9_Witness ==
  /\ BypassedCall
  /\ blocks = 2
  /\ eng.preDelayWritePos > 0
  /\ eng.preDelayBuffer # Zeros(Len(eng.preDelayBuffer))
  /\ inBlock[1] # Zeros(CallSamples)

\* C10: no processBlock call with a block no larger than the prepared block
\* size allocates memory.
C10_NoAllocationInProcess ==
  op = "processBlock" /\ CallSamples <= Len(eng.tempBuffer) => allocs = 0

\* The last n entries of hist: the per-sample signals of the last block.
LastBlockTrace == SubSeq(hist, Len(hist) - CallSamples + 1, Len(hist))

\* The combs as the last block tuned them (damping frequency and gain from the
\* parameters the block read), with the memory they had when the call began.
TunedCombsAtCall ==
  [c \in 1..numCombs |->
     CombSetGain(
       CombSetDampingFreq(atCall.eng.combs[c],
                          DampingFreq(atCall.params.damping)),
       CombGain(atCall.params.decay, atCall.params.bassmult,
                atCall.eng.currentSampleRate))]

\* Output of comb c run by itself on the input sequence x.
CombAlone(c, x) ==
  CombProcessBlockScalar(TunedCombsAtCall[c], x, Zeros(Len(x)), Len(x)).out

\* C11: in a non-bypassed block every comb gets the pre-delay output x as its
\* input, so the signal handed to the allpass chain is
\* 0.25 * (comb0(x) + comb1(x) + comb2(x) + comb3(x)).
C11_CombsParallel ==
  ActiveCall /\ atCall.params.simd <= 50 =>
    LET x == [i \in 1..CallSamples |-> LastBlockTrace[i].y]
    IN  \A i \in 1..CallSamples :
          Mul(LastBlockTrace[i].comb, 25)
            = Mul(CombAlone(1, x)[i] + CombAlone(2, x)[i]
                  + CombAlone(3, x)[i] + CombAlone(4, x)[i], 25)


\* The mean of the four combs' configured active lengths, as a time in
\* microseconds at the prepared sample rate.
ConfiguredMeanDelayUs ==
  Div((atCall.eng.combs[1].delaySamples + atCall.eng.combs[2].delaySamples
       + atCall.eng.combs[3].delaySamples + atCall.eng.combs[4].delaySamples)
      * 250000,
      atCall.eng.currentSampleRate)

\* C13: the delay time a non-bypassed block feeds into the comb-gain formula
\* is the mean of the combs' configured active lengths divided by the sample
\* rate, to within one sample period.
C13_GainUsesActualDelay ==
  ActiveCall =>
    Abs(AvgDelayUs(atCall.eng.currentSampleRate) - ConfiguredMeanDelayUs)
      * atCall.eng.currentSampleRate <= 1000000

\* A processBlock call that was not bypassed has returned, and nothing has been
\* prepared or entered since.
ActiveCallReturned ==
  op = "processBlock" /\ pc = "idle" /\ loads.bypass = 1 /\ local.bypass <= 50

\* C15: whatever the control thread writes and whenever, one processBlock call
\* loads each of the 9 parameters at most once, has loaded all of them before
\* it processes the first sample, and what it leaves behind (processor, hi-cut
\* memory, output buffer) is what the block algorithm gives for the single
\* loaded value of each parameter.
C15_ParametersSnapshot ==
  /\ \A k \in DOMAIN loads : loads[k] <= 1
  /\ pc = "run" => \A k \in DOMAIN loads : loads[k] = 1
  /\ ActiveCallReturned =>
       \E r \in {ProcessActive(atCall.eng, atCall.prev, local,
                               ClearUnusedOutputs(inBlock, numIn, CallSamples),
                               numIn, CallSamples)} :
         /\ \A k \in DOMAIN loads : loads[k] = 1
         /\ buffer = r.buffer
         /\ eng = r.eng
         /\ prevSample = r.prev

\* The last call the host makes: the control thread changed the wet parameter
\* after the call had loaded it (no write can follow the last call), and the
\* block has a non-zero wet signal and a non-zero dry signal.
C15_Witness ==
  /\ ActiveCallReturned
  /\ blocks = MaxBlocks
  /\ params.wet # local.wet
  /\ eng.tempBuffer[1] # 0
  /\ inBlock[1][1] # 0

\* C17: over the non-bypassed blocks since prepareToPlay (hist holds exactly
\* their samples, in order), whatever pre-delay length each block ran with: a
\* sample the stage outputs while its length is d > 0 is the sample that
\* entered the stage d samples earlier in that stream (0 if fewer than d
\* samples came before), and with length 0 the stage outputs its input.
C17_PreDelayAcrossSettings ==
  \A k \in 1..Len(hist) :
    IF hist[k].d > 0
      THEN hist[k].y = IF k > hist[k].d THEN hist[k - hist[k].d].x ELSE 0
      ELSE hist[k].y = hist[k].x

\* ===================================================================
\* Claims on one filter (SpecFilter)
\* ===================================================================
\* What processBlockScalar writes to the output from the state and input the
\* last processBlock* call started from.
ScalarReferenceOut ==
  IF which = "comb"
    THEN CombProcessBlockScalar(fPre, fIn, Zeros(Len(fIn)), Len(fIn)).out
    ELSE AllpassProcessBlockScalar(fPre, fIn, fIn, Len(fIn)).out

\* The last call was processBlockSIMD on a prepared filter whose active length
\* is in [1, capacity] and whose cursor is inside the active length.
SimdCallInRange ==
  /\ fOp = "processBlockSIMD"
  /\ fPre.prepared
  /\ fPre.delaySamples >= 1
  /\ fPre.delaySamples <= Len(fPre.delayLine)
  /\ fPre.writeIndex < fPre.delaySamples

\* C2: from every filter state with an active length in [1, capacity],
\* processBlockSIMD writes the same output samples as processBlockScalar does
\* from the same state on the same input.
C2_SimdOutputEqualsScalar == SimdCallInRange => fOut = ScalarReferenceOut

\* C7: the comb's feedback gain is always in [0, 0.99] and the allpass's gain
\* always in [-0.99, 0.99].
C7_GainsClamped ==
  /\ comb.feedbackGain >= 0 /\ comb.feedbackGain <= 99
  /\ ap.apGain >= -99 /\ ap.apGain <= 99

\* C8: once prepare has run, every later prepare / setDelaySamples leaves
\* 1 <= activeLength <= capacity.
C8_ActiveLengthInCapacity ==
  /\ comb.prepared =>
       (1 <= comb.delaySamples /\ comb.delaySamples <= Len(comb.delayLine))
  /\ ap.prepared =>
       (1 <= ap.delaySamples /\ ap.delaySamples <= Len(ap.delayLine))

\* The last call was processBlockScalar on a prepared allpass whose delay line
\* was all zeros with the cursor at 0 and the active length in [1, capacity].
AllpassScalarFromZero ==
  /\ which = "allpass"
  /\ fOp = "processBlockScalar"
  /\ fPre.prepared
  /\ fPre.writeIndex = 0
  /\ fPre.delayLine = Zeros(Len(fPre.delayLine))
  /\ fPre.delaySamples >= 1
  /\ fPre.delaySamples <= Len(fPre.delayLine)

\* C12: from a zeroed delay line, with gain g and active length M, the
\* allpass's scalar read/write form writes y[n] = -g*x[n] + x[n-M] + g*y[n-M]
\* (terms with a negative index are 0), to within the rounding of the two
\* products.
C12_AllpassRecurrence ==
  AllpassScalarFromZero =>
    LET g == fPre.apGain
        M == fPre.delaySamples
    IN  \A n \in 1..Len(fOut) :
          Abs(fOut[n]
              - (Mul(-g, fIn[n])
                 + (IF n > M THEN fIn[n - M] + Mul(g, fOut[n - M]) ELSE 0)))
            <= 2

\* C14: after any sequence of prepare, setDelaySamples, reset and processBlock*
\* calls, a filter prepared with a capacity of at least 1 has its write cursor
\* in 0 <= cursor < activeLength.
C14_CursorBelowActiveLength ==
  /\ comb.prepared /\ Len(comb.delayLine) >= 1 =>
       (0 <= comb.writeIndex /\ comb.writeIndex < comb.delaySamples)
  /\ ap.prepared /\ Len(ap.delayLine) >= 1 =>
       (0 <= ap.writeIndex /\ ap.writeIndex < ap.delaySamples)

\* The last call was processBlockSIMD on a prepared filter whose active length
\* is at least the vector width and at most the capacity, with the cursor
\* inside the active length.
SimdCallLongLine ==
  /\ fOp = "processBlockSIMD"
  /\ fPre.prepared
  /\ fPre.delaySamples >= simdWidth
  /\ fPre.delaySamples <= Len(fPre.delayLine)
  /\ fPre.writeIndex < fPre.delaySamples

\* What processBlockScalar does from the state and input the last
\* processBlock* call started from (the allpass in place).
ScalarReference ==
  IF which = "comb"
    THEN CombProcessBlockScalar(fPre, fIn, Zeros(Len(fIn)), Len(fIn))
    ELSE AllpassProcessBlockScalar(fPre, fIn, fIn, Len(fIn))

\* Every comb and allpass of the plug-in had an active length of at least the
\* vector width when the last processBlock began.
EngineLinesLong ==
  /\ \A c \in 1..numCombs : atCall.eng.combs[c].delaySamples >= simdWidth
  /\ \A a \in 1..numAllpasses :
       atCall.eng.allpasses[a].delaySamples >= simdWidth

\* What the last processBlock would have left behind on the scalar path.
ScalarBlockReference ==
  ProcessBlockResult(atCall.eng, atCall.prev,
                     [atCall.params EXCEPT !.simd = 0],
                     inBlock, numIn, CallSamples)

\* C16: with an active length of at least the vector width and the cursor
\* below it, processBlockSIMD leaves the filter (delay line, cursor, damping
\* memory) and the output block exactly as processBlockScalar does from the
\* same state on the same input; and a plug-in block run on the SIMD path
\* leaves the output buffer, the hi-cut memory and every member but the
\* useSIMD flag as the scalar path does, so switching the simd parameter
\* between blocks gives the output stream of the scalar path.
C16_SimdLeavesScalarState ==
  /\ SimdCallLongLine =>
       /\ fOut = ScalarReference.out
       /\ (IF which = "comb" THEN comb ELSE ap) = ScalarReference.f
  /\ ActiveCall /\ atCall.params.simd > 50 /\ EngineLinesLong =>
       /\ buffer = ScalarBlockReference.buffer
       /\ prevSample = ScalarBlockReference.prev
       /\ [eng EXCEPT !.useSIMD = FALSE] = ScalarBlockReference.eng

\* The plug-in's second block, on the SIMD path after a scalar first block,
\* simdWidth + 1 samples (one vector group and a scalar tail), with a wet
\* signal that has gone round the shortest allpass line; the allpasses run in
\* place.
C16_Witness ==
  /\ ActiveCall
  /\ atCall.params.simd > 50
  /\ EngineLinesLong
  /\ blocks = 2
  /\ ~atCall.eng.useSIMD
  /\ CallSamples = simdWidth + 1
  /\ atCall.eng.allpasses[7].writeIndex > 0
  /\ atCall.eng.allpasses[7].delayLine
       # Zeros(Len(atCall.eng.allpasses[7].delayLine))
  /\ eng.tempBuffer[CallSamples] # 0

\* The filter on its own: a second call, 5 samples, on a line that holds
\* signal with the cursor off 0, so the vector group wraps around the end of
\* the active region.
SimdFilterCallWraps ==
  /\ SimdCallLongLine
  /\ fCalls = 2
  /\ Len(fIn) > simdWidth
  /\ Len(fIn) % simdWidth # 0
  /\ fPre.writeIndex > 0
  /\ fPre.writeIndex + simdWidth > fPre.delaySamples
  /\ fPre.delayLine # Zeros(Len(fPre.delayLine))

====
